---- MODULE Spec2Model ----
(***************************************************************************)
(* The entity/scene registry of gepetto_viewer_rerun.client.Gui: windows,  *)
(* scenes with their recordings, entities per archetype bucket, and the    *)
(* calls each public operation makes into the rerun backend.               *)
(*                                                                         *)
(* Python strings are sequences of one-character strings, so that find()   *)
(* and slicing are computed.  A Scene reference is the scene's 0-based     *)
(* position in sceneList (scenes are only ever appended), an Entity        *)
(* reference is <<bucket, 0-based position>>.                              *)
(*                                                                         *)
(* Every action is one call of a public method, run to completion.  `last` *)
(* is the call, `ret` what it returned ("True", "False", "None", "name"    *)
(* for createWindow's echo of its argument, "raise" when an exception      *)
(* left the method) and `calls` the rr.log / rr.log_file_from_path calls   *)
(* it made, in order.  A scene without recording has rec = None; rr.log    *)
(* accepts recording=None, while rec.to_native() on None and               *)
(* archetype.colors on a payload without colors raise AttributeError.      *)
(* An archetype is kept as its class, one size parameter, its colors and   *)
(* its label; a recording as (application id, recording id, serial of the  *)
(* rr.new_recording call that made it).                                    *)
(***************************************************************************)
EXTENDS Integers, Sequences, FiniteSets, TLC

VARIABLES windowList, sceneList, entityList, nextRec, calls, ret, last

vars == <<windowList, sceneList, entityList, nextRec, calls, ret, last>>

(* ---------------------------- bounds ----------------------------------- *)
MaxWindows == 1
MaxScenes == 2
MaxEntities == 1
MaxRecordings == 2
\* entities in the registry of SpecPair
MaxPairEntities == 2

(* ---------------------------- inputs ----------------------------------- *)
WindowNames == {<<"w">>}
SceneNames == {<<"s">>, <<"t">>}
\* identifiers: bare, scene-prefixed, trailing '/', and two '/' (its remainder after
\* the first '/' is again an identifier of the set)
Names == {<<"a">>, <<"s", "/", "a">>, <<"s", "/">>, <<"s", "/", "s", "/", "a">>}
Radii == {1}
NewRadii == {2}
Colors == {"red"}
Paths == {<<"f">>}

(* ------------------------- enum Archetype ------------------------------ *)
ARROWS3D == 0
BOXES3D == 1
CAPSULES3D == 2
LINESTRIPS3D == 3
MESH3D == 4
MESH_FROM_PATH == 5
POINTS3D == 6
Archetype == {ARROWS3D, BOXES3D, CAPSULES3D, LINESTRIPS3D, MESH3D, MESH_FROM_PATH, POINTS3D}

(* --------------------------- str methods ------------------------------- *)
\* str.find(ch): 0-based position of the first occurrence, -1 if none
find(str, ch) ==
  IF \E i \in 1..Len(str) : str[i] = ch
  THEN (CHOOSE i \in 1..Len(str) : str[i] = ch /\ \A j \in 1..(i - 1) : str[j] # ch) - 1
  ELSE -1

\* str[:i]
sliceTo(str, i) == SubSeq(str, 1, i)

\* the slice taken one character early: str[i - 1:]
sliceFrom_early(str, i) == SubSeq(str, i, Len(str))

\* str[i:]
sliceFrom(str, i) == SubSeq(str, i + 1, Len(str))

\* a '/' was found, whatever follows it
hasRemainder_anySlash(str, charIndex) == charIndex # -1

\* charIndex != -1 and charIndex != len(str) - 1
hasRemainder(str, charIndex) == charIndex # -1 /\ charIndex # Len(str) - 1

(* ----------------------- backend (rerun) values ------------------------ *)
None == [app |-> <<>>, id |-> <<>>, serial |-> 0]

\* rr.new_recording(application_id, recording_id): a fresh stream object
new_recording(application_id, recording_id) ==
  [app |-> application_id, id |-> recording_id, serial |-> nextRec]

NoLabel == <<>>
FloorSize == 200
SquareVertices == 4
TriangleVertices == 3

Boxes3D(size, color, label) == [label |-> label, kind |-> "Boxes3D", dim |-> size, colors |-> color]
Arrows3D(dim, color, label) == [label |-> label, kind |-> "Arrows3D", dim |-> dim, colors |-> color]
Capsules3D(dim, color) == [label |-> NoLabel, kind |-> "Capsules3D", dim |-> dim, colors |-> color]
LineStrips3D(color, label) == [label |-> label, kind |-> "LineStrips3D", dim |-> 1, colors |-> color]
Mesh3D(vertices, color) == [label |-> NoLabel, kind |-> "Mesh3D", dim |-> vertices, colors |-> color]
Points3D(dim, color, label) == [label |-> label, kind |-> "Points3D", dim |-> dim, colors |-> color]
\* entity.MeshFromPath(path); the path is kept in the label field
MeshFromPath(path) == [label |-> path, kind |-> "MeshFromPath", dim |-> 0, colors |-> "none"]

\* the archetypes whose class has a `colors` attribute; Mesh3D has
\* vertex_colors instead and MeshFromPath has only a path
hasColors(archetype) ==
  archetype.kind \in {"Arrows3D", "Boxes3D", "Capsules3D", "LineStrips3D", "Points3D"}

\* a call into the backend: rr.log(path, archetype, recording) or
\* rr.log_file_from_path(file_path, recording)
log(path, archetype, recording) ==
  [path |-> path, archetype |-> archetype, recording |-> recording, fn |-> "log"]
log_file_from_path(file_path, recording) ==
  [path |-> file_path, archetype |-> MeshFromPath(file_path), recording |-> recording,
   fn |-> "log_file_from_path"]

(* ------------------------- Scene and Entity ---------------------------- *)
Scene(name) == [name |-> name, rec |-> None]
setRec(scene, rec) == [scene EXCEPT !.rec = rec]

Entity(name, archetype, scenes) == [archetype |-> archetype, name |-> name, scenes |-> scenes]
addScene(entity, scene) == [entity EXCEPT !.scenes = @ \cup {scene}]

(* --------------------------- Gui lookups ------------------------------- *)
NoEntity == <<-1, -1>>

\* the first scene, whatever its name
_getSceneIndex_anyScene(sceneName) == IF sceneList = <<>> THEN -1 ELSE 0

\* 0-based index of the first scene of that name, -1 if none
_getSceneIndex(sceneName) ==
  IF \E i \in 1..Len(sceneList) : sceneList[i].name = sceneName
  THEN (CHOOSE i \in 1..Len(sceneList) :
          /\ sceneList[i].name = sceneName
          /\ \A j \in 1..(i - 1) : sceneList[j].name # sceneName) - 1
  ELSE -1

\* sceneList[index]
sceneAt(index) == sceneList[index + 1]

\* entityList[ref[0]][ref[1]]
entityAt(list, ref) == list[ref[1]][ref[2] + 1]

\* the references of all entities held in the buckets
EntityRefs(list) == UNION {{<<b, i>> : i \in 0..(Len(list[b]) - 1)} : b \in Archetype}

\* the first entity of the buckets, whatever its name
_getEntity_anyName(entityName) ==
  IF EntityRefs(entityList) = {} THEN NoEntity
  ELSE CHOOSE r \in EntityRefs(entityList) :
         \A o \in EntityRefs(entityList) : r[1] < o[1] \/ (r[1] = o[1] /\ r[2] <= o[2])

\* buckets in enum order, each in insertion order, first match
_getEntity(entityName) ==
  LET hits == {r \in EntityRefs(entityList) : entityAt(entityList, r).name = entityName}
  IN IF hits = {} THEN NoEntity
     ELSE CHOOSE r \in hits :
            \A o \in hits : r[1] < o[1] \/ (r[1] = o[1] /\ r[2] <= o[2])

\* membership of any scene taken for membership of the given one
_isEntityInScene_anyScene(entity, scene) ==
  entity # NoEntity /\ entityAt(entityList, entity).scenes # {}

_isEntityInScene(entity, scene) ==
  entity # NoEntity /\ scene \in entityAt(entityList, entity).scenes

\* no scene is looked up: the default recording
_getRecording_default(recName) == None

\* the recording of the last scene of that name, None if there is none
_getRecording_last(recName) ==
  IF \E i \in 1..Len(sceneList) : sceneList[i].name = recName
  THEN sceneList[CHOOSE i \in 1..Len(sceneList) :
                   /\ sceneList[i].name = recName
                   /\ \A j \in (i + 1)..Len(sceneList) : sceneList[j].name # recName].rec
  ELSE None

\* the recording of the first scene of that name, None if there is none
_getRecording(recName) ==
  IF \E i \in 1..Len(sceneList) : sceneList[i].name = recName
  THEN sceneList[CHOOSE i \in 1..Len(sceneList) :
                   /\ sceneList[i].name = recName
                   /\ \A j \in 1..(i - 1) : sceneList[j].name # recName].rec
  ELSE None

TotalEntities == Len(entityList[ARROWS3D]) + Len(entityList[BOXES3D])
                 + Len(entityList[CAPSULES3D]) + Len(entityList[LINESTRIPS3D])
                 + Len(entityList[MESH3D]) + Len(entityList[MESH_FROM_PATH])
                 + Len(entityList[POINTS3D])

(* ------------------------------ Init ----------------------------------- *)
NoArg == <<>>
Call(op, a, b) == [b |-> b, op |-> op, a |-> a]

Init ==
  /\ windowList = <<>>
  /\ sceneList = <<>>
  /\ entityList = [k \in Archetype |-> <<>>]
  /\ nextRec = 1
  /\ calls = <<>>
  /\ ret = "None"
  /\ last = Call("__init__", NoArg, NoArg)

(* ----------------------- windows and scenes ---------------------------- *)
createWindow ==
  \E name \in WindowNames :
    /\ Len(windowList) < MaxWindows
    /\ windowList' = Append(windowList, name)
    /\ calls' = <<>>
    /\ ret' = "name"
    /\ last' = Call("createWindow", name, NoArg)
    /\ UNCHANGED <<sceneList, entityList, nextRec>>

\* the new scene adopts the deferred entities stored under "<sceneName>/..."
createScene_adopting ==
  \E sceneName \in SceneNames :
    /\ Len(sceneList) < MaxScenes
    /\ sceneList' = Append(sceneList, Scene(sceneName))
    /\ entityList' = [b \in Archetype |->
                        [i \in 1..Len(entityList[b]) |->
                           IF /\ entityList[b][i].scenes = {}
                              /\ Len(entityList[b][i].name) > Len(sceneName)
                              /\ SubSeq(entityList[b][i].name, 1, Len(sceneName)) = sceneName
                           THEN addScene(entityList[b][i], Len(sceneList))
                           ELSE entityList[b][i]]]
    /\ calls' = <<>>
    /\ ret' = "None"
    /\ last' = Call("createScene", sceneName, NoArg)
    /\ UNCHANGED <<windowList, nextRec>>

createScene ==
  \E sceneName \in SceneNames :
    /\ Len(sceneList) < MaxScenes
    /\ sceneList' = Append(sceneList, Scene(sceneName))
    /\ calls' = <<>>
    /\ ret' = "None"
    /\ last' = Call("createScene", sceneName, NoArg)
    /\ UNCHANGED <<windowList, entityList, nextRec>>

\* the window list is not consulted
addSceneToWindowResult_anyWindow(sceneName, wid) ==
  LET index == _getSceneIndex(sceneName) IN
  IF index = -1
  THEN [sceneList |-> sceneList, acquired |-> 0, ret |-> "False"]
  ELSE LET rec == new_recording(wid, sceneName)
       IN [sceneList |-> [sceneList EXCEPT ![index + 1] = setRec(@, rec)],
           acquired |-> 1, ret |-> "True"]

addSceneToWindowResult(sceneName, wid) ==
  LET index == _getSceneIndex(sceneName) IN
  IF index = -1
  THEN [sceneList |-> sceneList, acquired |-> 0, ret |-> "False"]
  ELSE IF \A i \in 1..Len(windowList) : windowList[i] # wid
  THEN [sceneList |-> sceneList, acquired |-> 0, ret |-> "False"]
  ELSE LET rec == new_recording(wid, sceneName)
       IN [sceneList |-> [sceneList EXCEPT ![index + 1] = setRec(@, rec)],
           acquired |-> 1, ret |-> "True"]

addSceneToWindow ==
  \E sceneName \in SceneNames, wid \in WindowNames :
    LET r == addSceneToWindowResult(sceneName, wid) IN
    /\ r.acquired = 1 => nextRec <= MaxRecordings
    /\ sceneList' = r.sceneList
    /\ nextRec' = nextRec + r.acquired
    /\ calls' = <<>>
    /\ ret' = r.ret
    /\ last' = Call("addSceneToWindow", sceneName, wid)
    /\ UNCHANGED <<windowList, entityList>>

(* --------------------------- _parseEntity ------------------------------ *)
append(list, entityType, entity) == [list EXCEPT ![entityType] = Append(@, entity)]

\* the registry and the backend calls after _parseEntity; raised when
\* rec.to_native() is evaluated on a scene that has no recording
_parseEntity(archetypeName, archetype, entityType) ==
  LET charIndex == find(archetypeName, "/")
      sceneName == sliceTo(archetypeName, charIndex)
      sceneIndex == _getSceneIndex(sceneName)
      entityName == sliceFrom(archetypeName, charIndex + 1)
  IN IF hasRemainder(archetypeName, charIndex) /\ sceneIndex # -1
     THEN LET entity == Entity(entityName, archetype, {sceneIndex})
              appended == append(entityList, entityType, entity)
          IN IF entityType = MESH_FROM_PATH
             THEN IF sceneAt(sceneIndex).rec = None
                  THEN [entityList |-> appended, calls |-> <<>>, raised |-> TRUE]
                  ELSE [entityList |-> appended,
                        calls |-> <<log_file_from_path(entity.archetype.label,
                                                       sceneAt(sceneIndex).rec)>>,
                        raised |-> FALSE]
             ELSE [entityList |-> appended,
                   calls |-> <<log(entityName, entity.archetype, sceneAt(sceneIndex).rec)>>,
                   raised |-> FALSE]
     ELSE [entityList |-> append(entityList, entityType, Entity(archetypeName, archetype, {})),
           calls |-> <<>>, raised |-> FALSE]

\* an add operation: build the archetype, _parseEntity, return True;
\* taken while the registry holds fewer than `bound` entities
addPrimitiveUpTo(bound, op, name, archetype, entityType) ==
  LET r == _parseEntity(name, archetype, entityType) IN
  /\ TotalEntities < bound
  /\ entityList' = r.entityList
  /\ calls' = r.calls
  /\ ret' = IF r.raised THEN "raise" ELSE "True"
  /\ last' = Call(op, name, NoArg)
  /\ UNCHANGED <<windowList, sceneList, nextRec>>

addPrimitive(op, name, archetype, entityType) ==
  addPrimitiveUpTo(MaxEntities, op, name, archetype, entityType)

addFloor ==
  \E floorName \in Names :
    addPrimitive("addFloor", floorName, Boxes3D(FloorSize, "grey", NoLabel), BOXES3D)

addBox ==
  \E boxName \in Names, RGBAcolor \in Colors :
    addPrimitive("addBox", boxName, Boxes3D(1, RGBAcolor, boxName), BOXES3D)

addArrow ==
  \E name \in Names, radius \in Radii, RGBAcolor \in Colors :
    addPrimitive("addArrow", name, Arrows3D(radius, RGBAcolor, name), ARROWS3D)

addCapsule ==
  \E name \in Names, RGBAcolor \in Colors :
    addPrimitive("addCapsule", name, Capsules3D(1, RGBAcolor), CAPSULES3D)

addLine ==
  \E lineName \in Names, RGBAcolor \in Colors :
    addPrimitive("addLine", lineName, LineStrips3D(RGBAcolor, lineName), LINESTRIPS3D)

addSquareFace ==
  \E faceName \in Names, RGBAcolor \in Colors :
    addPrimitive("addSquareFace", faceName, Mesh3D(SquareVertices, RGBAcolor), MESH3D)

addTriangleFace ==
  \E faceName \in Names, RGBAcolor \in Colors :
    addPrimitive("addTriangleFace", faceName, Mesh3D(TriangleVertices, RGBAcolor), MESH3D)

addSphere ==
  \E sphereName \in Names, RGBAcolor \in Colors :
    addPrimitive("addSphere", sphereName, Points3D(1, RGBAcolor, sphereName), POINTS3D)

\* _parseEntity called for the mesh-from-file kind (its MESH_FROM_PATH branch)
parseMeshFromPath ==
  \E meshName \in Names, path \in Paths :
    addPrimitive("parseMeshFromPath", meshName, MeshFromPath(path), MESH_FROM_PATH)

(* ---------------------------- resizeArrow ------------------------------ *)
createArrow(arrowName, radius, colors) == Arrows3D(radius, colors, arrowName)

\* the scenes of a membership set in iteration order (position in sceneList)
RECURSIVE inOrder(_)
inOrder(scenes) ==
  IF scenes = {} THEN <<>>
  ELSE LET first == CHOOSE s \in scenes : \A o \in scenes : s <= o
       IN <<first>> \o inOrder(scenes \ {first})

\* for scene in entity.scenes: rr.log(entity.name, entity.archetype, scene.rec)
logEach(name, archetype, scenes) ==
  [i \in 1..Cardinality(scenes) |-> log(name, archetype, sceneAt(inOrder(scenes)[i]).rec)]

\* the entity is rebuilt around the new archetype, in no scene
setArchetype_rebuilt(list, ref, archetype) ==
  [list EXCEPT ![ref[1]][ref[2] + 1] = Entity(@.name, archetype, {})]

setArchetype(list, ref, archetype) ==
  [list EXCEPT ![ref[1]][ref[2] + 1].archetype = archetype]

resizeArrowResult(arrowName, radius) ==
  LET charIndex == find(arrowName, "/")
      sceneName == sliceTo(arrowName, charIndex)
      sceneIndex == _getSceneIndex(sceneName)
      entityName == sliceFrom(arrowName, charIndex + 1)
  IN IF hasRemainder(arrowName, charIndex) /\ sceneIndex # -1
     THEN LET entity == _getEntity(entityName)
              scene == sceneIndex
          IN IF entity # NoEntity /\ _isEntityInScene(entity, scene)
             THEN IF ~hasColors(entityAt(entityList, entity).archetype)
                  THEN [entityList |-> entityList, calls |-> <<>>, ret |-> "raise"]
                  ELSE LET newArrow == createArrow(arrowName, radius,
                                         entityAt(entityList, entity).archetype.colors)
                       IN [entityList |-> setArchetype(entityList, entity, newArrow),
                           calls |-> <<log(entityAt(entityList, entity).name, newArrow,
                                           sceneAt(scene).rec)>>,
                           ret |-> "True"]
             ELSE [entityList |-> entityList, calls |-> <<>>, ret |-> "False"]
     ELSE LET entity == _getEntity(arrowName)
          IN IF entity = NoEntity
             THEN [entityList |-> entityList, calls |-> <<>>, ret |-> "False"]
             ELSE IF ~hasColors(entityAt(entityList, entity).archetype)
             THEN [entityList |-> entityList, calls |-> <<>>, ret |-> "raise"]
             ELSE LET newArrow == createArrow(arrowName, radius,
                                    entityAt(entityList, entity).archetype.colors)
                      scenes == entityAt(entityList, entity).scenes
                  IN [entityList |-> setArchetype(entityList, entity, newArrow),
                      calls |-> logEach(entityAt(entityList, entity).name, newArrow, scenes),
                      ret |-> "True"]

resizeArrow ==
  \E arrowName \in Names, radius \in NewRadii :
    LET r == resizeArrowResult(arrowName, radius) IN
    /\ entityList' = r.entityList
    /\ calls' = r.calls
    /\ ret' = r.ret
    /\ last' = Call("resizeArrow", arrowName, NoArg)
    /\ UNCHANGED <<windowList, sceneList, nextRec>>

(* ----------------------------- addToGroup ------------------------------ *)
_logArchetype(entityName, groupName) ==
  LET entity == _getEntity(entityName)
      rec == _getRecording(groupName)
      sceneIndex == _getSceneIndex(groupName)
      e == entityAt(entityList, entity)
  IN IF e.archetype.kind = "MeshFromPath"
     THEN IF rec = None
          THEN [entityList |-> entityList, calls |-> <<>>, ret |-> "raise"]
          ELSE [entityList |-> entityList,
                calls |-> <<log_file_from_path(e.archetype.label, rec)>>, ret |-> "True"]
     ELSE IF e.archetype.kind \in {"Arrows3D", "Boxes3D", "Capsules3D", "LineStrips3D",
                                   "Mesh3D", "Points3D"}
     THEN [entityList |-> [entityList EXCEPT ![entity[1]][entity[2] + 1] =
                                                addScene(@, sceneIndex)],
           calls |-> <<log(e.name, e.archetype, rec)>>, ret |-> "True"]
     ELSE [entityList |-> entityList, calls |-> <<>>, ret |-> "False"]

\* the scene is not looked up before the entity is logged
addToGroupResult_noSceneCheck(nodeName, groupName) ==
  IF _getEntity(nodeName) = NoEntity
  THEN [entityList |-> entityList, calls |-> <<>>, ret |-> "False"]
  ELSE _logArchetype(nodeName, groupName)

addToGroupResult(nodeName, groupName) ==
  IF _getSceneIndex(groupName) = -1
  THEN [entityList |-> entityList, calls |-> <<>>, ret |-> "False"]
  ELSE IF _getEntity(nodeName) = NoEntity
  THEN [entityList |-> entityList, calls |-> <<>>, ret |-> "False"]
  ELSE _logArchetype(nodeName, groupName)

addToGroup ==
  \E nodeName \in Names, groupName \in SceneNames :
    LET r == addToGroupResult(nodeName, groupName) IN
    /\ entityList' = r.entityList
    /\ calls' = r.calls
    /\ ret' = r.ret
    /\ last' = Call("addToGroup", nodeName, groupName)
    /\ UNCHANGED <<windowList, sceneList, nextRec>>

(* ------------------------------- Next ---------------------------------- *)
Next ==
  \/ createWindow
  \/ createScene
  \/ addSceneToWindow
  \/ addFloor
  \/ addBox
  \/ addArrow
  \/ resizeArrow
  \/ addCapsule
  \/ addLine
  \/ addSquareFace
  \/ addTriangleFace
  \/ addSphere
  \/ parseMeshFromPath
  \/ addToGroup

Spec == Init /\ [][Next]_vars

(* ------------- two entities: a registry of boxes and arrows ------------ *)
\* the same operations on a registry that may hold two entities, without
\* windows (so every scene stays without recording)
addBoxPair ==
  \E boxName \in Names, RGBAcolor \in Colors :
    addPrimitiveUpTo(MaxPairEntities, "addBox", boxName,
                     Boxes3D(1, RGBAcolor, boxName), BOXES3D)

addArrowPair ==
  \E name \in Names, radius \in Radii, RGBAcolor \in Colors :
    addPrimitiveUpTo(MaxPairEntities, "addArrow", name,
                     Arrows3D(radius, RGBAcolor, name), ARROWS3D)

NextPair ==
  \/ createScene
  \/ addBoxPair
  \/ addArrowPair
  \/ resizeArrow
  \/ addToGroup

SpecPair == Init /\ [][NextPair]_vars

(* ===================== properties of the registry ====================== *)
AddOps == {"addFloor", "addBox", "addArrow", "addCapsule", "addLine",
           "addSquareFace", "addTriangleFace", "addSphere"}

\* i is the 1-based position of the first '/' of id
IsFirstSlash(id, i) ==
  i \in 1..Len(id) /\ id[i] = "/" /\ \A j \in 1..(i - 1) : id[j] # "/"

\* 0-based positions of the scenes registered under that name
ScenesNamed(n) == {k \in 0..(Len(sceneList) - 1) : sceneList[k + 1].name = n}

\* id is "<scene>/<rest>" with <scene> registered and <rest> not empty
Qualified(id) ==
  \E i \in 1..(Len(id) - 1) : IsFirstSlash(id, i) /\ ScenesNamed(SubSeq(id, 1, i - 1)) # {}

PrefixOf(id) == SubSeq(id, 1, (CHOOSE i \in 1..Len(id) : IsFirstSlash(id, i)) - 1)
RestOf(id) == SubSeq(id, (CHOOSE i \in 1..Len(id) : IsFirstSlash(id, i)) + 1, Len(id))

\* the entities a step registers, and the ones it keeps as they were
NewRefs == EntityRefs(entityList') \ EntityRefs(entityList)
OldKept == \A r \in EntityRefs(entityList) :
             r \in EntityRefs(entityList') /\ entityAt(entityList', r) = entityAt(entityList, r)

\* what C1 asks of a single step
C1_QualifiedAddStep ==
  (last'.op \in AddOps /\ Qualified(last'.a)) =>
    /\ Cardinality(NewRefs) = 1
    /\ OldKept
    /\ \A r \in NewRefs :
         /\ entityAt(entityList', r).name = RestOf(last'.a)
         /\ \E k \in ScenesNamed(PrefixOf(last'.a)) : entityAt(entityList', r).scenes = {k}

\* C1: an add operation on "<scene>/<rest>", <scene> registered and <rest> not
\* empty, registers exactly one new entity, named <rest>, whose membership set
\* is exactly that scene
C1_QualifiedAddRegistersInScene == [][C1_QualifiedAddStep]_vars

\* an add operation on "s/s/a" has just registered "s/a" in scene "s"
C1_Witness ==
  /\ last.op \in AddOps
  /\ last.a = <<"s", "/", "s", "/", "a">>
  /\ ScenesNamed(<<"s">>) # {}
  /\ \E r \in EntityRefs(entityList) :
       /\ entityAt(entityList, r).name = <<"s", "/", "a">>
       /\ entityAt(entityList, r).scenes \subseteq ScenesNamed(<<"s">>)
       /\ Cardinality(entityAt(entityList, r).scenes) = 1

\* what C2 asks of a single step
C2_BareAddStep ==
  (last'.op \in AddOps \cup {"parseMeshFromPath"} /\ ~Qualified(last'.a)) =>
    /\ Cardinality(NewRefs) = 1
    /\ OldKept
    /\ \A r \in NewRefs :
         /\ entityAt(entityList', r).name = last'.a
         /\ entityAt(entityList', r).scenes = {}
    /\ calls' = <<>>

\* C2: an add operation on an identifier without '/', or whose first '/' is
\* its last character, or whose prefix is no registered scene, registers
\* exactly one new entity under the whole identifier, with an empty
\* membership set, and issues no backend call
C2_BareAddDefers == [][C2_BareAddStep]_vars

\* an add operation on "s/" has just registered "s/" although "s" is a scene
C2_Witness ==
  /\ last.op \in AddOps
  /\ last.a = <<"s", "/">>
  /\ ScenesNamed(<<"s">>) # {}
  /\ calls = <<>>
  /\ \E r \in EntityRefs(entityList) :
       entityAt(entityList, r).name = <<"s", "/">> /\ entityAt(entityList, r).scenes = {}

\* the entities registered under that name
RefsNamed(n) == {r \in EntityRefs(entityList) : entityAt(entityList, r).name = n}

\* what C3 asks of a single step
C3_GroupStep ==
  /\ (last'.op = "addToGroup" /\ ret' = "True") =>
       \E r \in EntityRefs(entityList') :
         /\ entityAt(entityList', r).name = last'.a
         /\ entityAt(entityList', r).scenes \cap ScenesNamed(last'.b) # {}
  /\ (last.op = "addToGroup" /\ ret = "True" /\ last' = last) =>
       (ret' = "True" /\ entityList' = entityList)

\* C3: a successful addToGroup(e, s) leaves s in e's membership set, and
\* repeating the successful call succeeds again and changes no membership
C3_GroupedIsMember == [][C3_GroupStep]_vars

\* what C4 asks of a single step
C4_UnknownSceneStep ==
  (last'.op = "addToGroup" /\ ScenesNamed(last'.b) = {}) =>
    (ret' = "False" /\ entityList' = entityList /\ calls' = <<>>)

\* C4: addToGroup(e, s) with s no registered scene fails, changes no entity
\* and issues no backend call
C4_UnknownSceneFails == [][C4_UnknownSceneStep]_vars

\* addToGroup has just failed on an existing entity because the scene
\* is not among the registered ones
C4_Witness ==
  /\ last.op = "addToGroup"
  /\ ret = "False"
  /\ sceneList # <<>>
  /\ ScenesNamed(last.b) = {}
  /\ RefsNamed(last.a) # {}

\* what C5 asks of a single step
C5_UnknownEntityStep ==
  (last'.op = "addToGroup" /\ RefsNamed(last'.a) = {}) =>
    /\ ret' = "False"
    /\ entityList' = entityList /\ sceneList' = sceneList /\ windowList' = windowList
    /\ calls' = <<>>

\* C5: addToGroup(e, s) with no entity stored under e fails, leaves the
\* registry as it was and issues no backend call
C5_UnknownEntityFails == [][C5_UnknownEntityStep]_vars

\* addToGroup has just failed on a registered scene because the only
\* entity is stored under another name
C5_Witness ==
  /\ last.op = "addToGroup"
  /\ ret = "False"
  /\ ScenesNamed(last.b) # {}
  /\ EntityRefs(entityList) # {}
  /\ RefsNamed(last.a) = {}

\* what C6 asks of a single step
C6_QualifiedResizeStep ==
  (last'.op = "resizeArrow" /\ Qualified(last'.a)) =>
    LET member == \E r \in RefsNamed(RestOf(last'.a)) :
                    entityAt(entityList, r).scenes \cap ScenesNamed(PrefixOf(last'.a)) # {}
    IN /\ ret' = "True" => member
       /\ ~member => (ret' = "False" /\ entityList' = entityList /\ calls' = <<>>)

\* C6: resizeArrow("s/e"), s registered, succeeds only if an entity e is a
\* member of s; otherwise it fails, replaces no payload and logs nothing
C6_QualifiedResizeNeedsMember == [][C6_QualifiedResizeStep]_vars

\* resizeArrow("s/a") has just failed although "a" exists and "s" is a
\* scene: "a" is a member of another scene only
C6_Witness ==
  /\ last.op = "resizeArrow"
  /\ last.a = <<"s", "/", "a">>
  /\ ret = "False"
  /\ ScenesNamed(<<"s">>) # {}
  /\ \E r \in RefsNamed(<<"a">>) :
       /\ entityAt(entityList, r).scenes # {}
       /\ entityAt(entityList, r).scenes \cap ScenesNamed(<<"s">>) = {}

\* what C7 asks of a single step
C7_BareResizeStep ==
  (last'.op = "resizeArrow" /\ ~Qualified(last'.a) /\ RefsNamed(last'.a) # {}) =>
    /\ ret' = "True"
    /\ \E r \in RefsNamed(last'.a) :
         LET old == entityAt(entityList, r)
             new == entityAt(entityList', r)
         IN /\ new.archetype \in {createArrow(last'.a, radius, old.archetype.colors) :
                                     radius \in NewRadii}
            /\ new.scenes = old.scenes
            /\ Len(calls') = Cardinality(old.scenes)
            /\ \A k \in old.scenes :
                 \E i \in 1..Len(calls') :
                   calls'[i] = log(old.name, new.archetype, sceneAt(k).rec)
            /\ \A i \in 1..Len(calls') :
                 \E k \in old.scenes : calls'[i].recording = sceneAt(k).rec

\* C7: resizeArrow on a bare name of a registered entity succeeds, replaces
\* that entity's payload by the resized arrow and logs it once to each scene
\* of the membership set and to no other (to none when the set is empty)
C7_BareResizeRelogs == [][C7_BareResizeStep]_vars

\* what C8 asks of a single step
C8_ReplaceStep ==
  \A r \in EntityRefs(entityList) :
    entityAt(entityList', r).archetype # entityAt(entityList, r).archetype =>
      LET new == entityAt(entityList', r)
      IN /\ Len(calls') >= Cardinality(new.scenes)
         /\ \A k \in new.scenes :
              \E i \in 1..Len(calls') : calls'[i] = log(new.name, new.archetype, sceneAt(k).rec)

\* C8: whenever a step replaces an entity's payload, the new payload is
\* logged once to every scene of that entity's membership set
C8_ReplacedPayloadRelogged == [][C8_ReplaceStep]_vars

\* what C9 asks of a single step
C9_BindStep ==
  last'.op = "addSceneToWindow" =>
    IF ScenesNamed(last'.a) = {} \/ (\A i \in 1..Len(windowList) : windowList[i] # last'.b)
    THEN ret' = "False" /\ nextRec' = nextRec /\ sceneList' = sceneList
    ELSE /\ ret' = "True"
         /\ \E k \in ScenesNamed(last'.a) :
              /\ sceneList'[k + 1].rec # None
              /\ sceneList'[k + 1].rec.app = last'.b
              /\ sceneList'[k + 1].rec.id = last'.a

\* C9: addSceneToWindow fails, acquires no recording and changes no scene
\* when the scene or the window is not registered; otherwise it succeeds and
\* the scene of that name holds a recording keyed by (window, scene)
C9_BindSceneToWindow == [][C9_BindStep]_vars

\* addSceneToWindow has just bound a registered scene to a registered window
C9_Witness ==
  /\ last.op = "addSceneToWindow"
  /\ ret = "True"
  /\ \E i \in 1..Len(windowList) : windowList[i] = last.b
  /\ \E k \in ScenesNamed(last.a) :
       sceneList[k + 1].rec # None /\ sceneList[k + 1].rec.app = last.b

\* what C10 asks of a single step
C10_HandleStep ==
  \A i \in 1..Len(sceneList) :
    sceneList[i].rec # None => sceneList'[i].rec = sceneList[i].rec

\* C10: a recording handle, once set on a scene, is never replaced
C10_HandleSetOnce == [][C10_HandleStep]_vars

\* what C11 asks of a single step
C11_FrameStep ==
  /\ last'.op \in {"createWindow", "createScene", "addSceneToWindow"} =>
       (calls' = <<>> /\ entityList' = entityList)
  /\ \A r \in EntityRefs(entityList) :
       entityAt(entityList', r).scenes # entityAt(entityList, r).scenes =>
         last'.op = "addToGroup"
  /\ \A r \in NewRefs :
       entityAt(entityList', r).scenes # {} =>
         (last'.op \in AddOps \cup {"parseMeshFromPath"} /\ Qualified(last'.a))

\* C11: createWindow, createScene and addSceneToWindow issue no backend call
\* and change no entity's name, payload or membership, also when a deferred
\* entity's name starts with the name of the scene created or bound; an
\* entity gains a scene only when it is created under a scene-qualified
\* identifier or by addToGroup
C11_SceneOpsLeaveEntities == [][C11_FrameStep]_vars

\* createScene("s") has just run while a deferred entity is stored as "s/a":
\* the entity is still in no scene
C11_Witness ==
  /\ last.op = "createScene"
  /\ last.a = <<"s">>
  /\ calls = <<>>
  /\ \E r \in RefsNamed(<<"s", "/", "a">>) : entityAt(entityList, r).scenes = {}

\* C12: no two entities of the registry, in the same bucket or in different
\* ones, are stored under the same name
C12_NamesUnique ==
  \A r1, r2 \in EntityRefs(entityList) :
    r1 # r2 => entityAt(entityList, r1).name # entityAt(entityList, r2).name

\* what C13 asks of a single step
C13_GroupCallStep ==
  last'.op = "addToGroup" =>
    IF ret' = "True"
    THEN /\ Len(calls') = 1
         /\ \E r \in RefsNamed(last'.a), k \in ScenesNamed(last'.b) :
              LET e == entityAt(entityList, r) IN
              calls'[1] = IF e.archetype.kind = "MeshFromPath"
                          THEN log_file_from_path(e.archetype.label, sceneList[k + 1].rec)
                          ELSE log(e.name, e.archetype, sceneList[k + 1].rec)
    ELSE calls' = <<>>

\* C13: a successful addToGroup(e, s) issues exactly one backend call, with
\* the recording of scene s: the file-load operation on the file path for a
\* mesh-from-file entity, the generic log of e's stored name and current
\* payload for every other kind; an addToGroup that does not succeed issues
\* no call
C13_GroupIssuesOneCall == [][C13_GroupCallStep]_vars

\* addToGroup has just succeeded on a mesh-from-file entity: one file-load
\* call to the recording the scene is bound to
C13_Witness ==
  /\ last.op = "addToGroup"
  /\ ret = "True"
  /\ Len(calls) = 1
  /\ calls[1].fn = "log_file_from_path"
  /\ calls[1].recording # None
  /\ \E k \in ScenesNamed(last.b) : sceneList[k + 1].rec = calls[1].recording

\* the identifier contains a '/'
HasSlash(id) == \E i \in 1..Len(id) : id[i] = "/"

\* what C14 asks of a single step
C14_ResizeLookupStep ==
  last'.op = "resizeArrow" =>
    /\ (HasSlash(last'.a) /\ ~Qualified(last'.a) /\ RefsNamed(last'.a) # {}) =>
         /\ ret' # "False"
         /\ ret' = "True" =>
              \E r \in RefsNamed(last'.a) :
                /\ entityAt(entityList', r).archetype.kind = "Arrows3D"
                /\ entityAt(entityList', r).archetype.label = last'.a
                /\ entityAt(entityList', r).archetype.dim \in NewRadii
    /\ (IF Qualified(last'.a) THEN RefsNamed(RestOf(last'.a)) = {}
                              ELSE RefsNamed(last'.a) = {}) =>
         (ret' = "False" /\ entityList' = entityList /\ calls' = <<>>)

\* C14: resizeArrow on an identifier with a '/' whose prefix is no registered
\* scene, or whose first '/' is its last character, looks the entity up under
\* the whole identifier; resizeArrow on an identifier for which the lookup
\* finds no entity fails, changes no entity and issues no backend call
C14_ResizeFallsBackToBareName == [][C14_ResizeLookupStep]_vars

\* resizeArrow("s/a") has just resized the entity stored as "s/a": "s" is
\* not a scene although another scene exists
C14_Witness ==
  /\ last.op = "resizeArrow"
  /\ last.a = <<"s", "/", "a">>
  /\ ret = "True"
  /\ sceneList # <<>>
  /\ ScenesNamed(<<"s">>) = {}
  /\ \E r \in RefsNamed(<<"s", "/", "a">>) :
       /\ entityAt(entityList, r).archetype.kind = "Arrows3D"
       /\ entityAt(entityList, r).archetype.dim \in NewRadii

\* what C15 asks of a single step
C15_GrowStep ==
  /\ Len(windowList') >= Len(windowList)
  /\ SubSeq(windowList', 1, Len(windowList)) = windowList
  /\ Len(sceneList') >= Len(sceneList)
  /\ \A i \in 1..Len(sceneList) : sceneList'[i].name = sceneList[i].name
  /\ \A r \in EntityRefs(entityList) :
       /\ r \in EntityRefs(entityList')
       /\ entityAt(entityList', r).name = entityAt(entityList, r).name
       /\ entityAt(entityList, r).scenes \subseteq entityAt(entityList', r).scenes

\* C15: the registry only grows: no step removes a window, a scene or an
\* entity, changes an entity's stored name or takes a scene out of a
\* membership set (resizeArrow replaces the payload and keeps the membership)
C15_RegistryOnlyGrows == [][C15_GrowStep]_vars

\* resizeArrow has just replaced the payload of an entity that is still a
\* member of a scene
C15_Witness ==
  /\ last.op = "resizeArrow"
  /\ ret = "True"
  /\ \E r \in EntityRefs(entityList) :
       /\ entityAt(entityList, r).archetype.kind = "Arrows3D"
       /\ entityAt(entityList, r).archetype.dim \in NewRadii
       /\ entityAt(entityList, r).scenes # {}

\* 0-based position of the earliest-created scene of that name
FirstNamed(n) == CHOOSE k \in ScenesNamed(n) : \A o \in ScenesNamed(n) : k <= o

\* what C16 asks of a single step
C16_FirstSceneStep ==
  /\ (last'.op = "addSceneToWindow" /\ ret' = "True") =>
       /\ sceneList'[FirstNamed(last'.a) + 1].rec # sceneList[FirstNamed(last'.a) + 1].rec
       /\ \A i \in 1..Len(sceneList) :
            i # FirstNamed(last'.a) + 1 => sceneList'[i] = sceneList[i]
  /\ (last'.op \in AddOps \cup {"parseMeshFromPath"} /\ Qualified(last'.a)) =>
       /\ \A r \in NewRefs : entityAt(entityList', r).scenes = {FirstNamed(PrefixOf(last'.a))}
       /\ \A i \in 1..Len(calls') :
            calls'[i].recording = sceneAt(FirstNamed(PrefixOf(last'.a))).rec
  /\ (last'.op = "resizeArrow" /\ Qualified(last'.a) /\ ret' = "True") =>
       /\ \E r \in RefsNamed(RestOf(last'.a)) :
            FirstNamed(PrefixOf(last'.a)) \in entityAt(entityList, r).scenes
       /\ \A i \in 1..Len(calls') :
            calls'[i].recording = sceneAt(FirstNamed(PrefixOf(last'.a))).rec
  /\ (last'.op = "addToGroup" /\ ret' = "True") =>
       /\ \A i \in 1..Len(calls') : calls'[i].recording = sceneAt(FirstNamed(last'.b)).rec
       /\ \A r \in EntityRefs(entityList) :
            entityAt(entityList', r).scenes \ entityAt(entityList, r).scenes
              \subseteq {FirstNamed(last'.b)}

\* C16: when several scenes share a name, binding to a window, scene-qualified
\* creation, scene-qualified resizing and addToGroup all resolve the name to
\* the earliest-created scene of that name; the recording addToGroup logs to
\* is the recording of the scene it inserts into the membership set
C16_NameResolvesToFirstScene == [][C16_FirstSceneStep]_vars

\* two scenes share a name and only the earlier one has a recording:
\* addToGroup has just put the entity in the earlier scene and logged it to
\* that scene's recording
C16_Witness ==
  /\ last.op = "addToGroup"
  /\ ret = "True"
  /\ Cardinality(ScenesNamed(last.b)) = 2
  /\ sceneAt(FirstNamed(last.b)).rec # None
  /\ Len(calls) = 1
  /\ calls[1].recording = sceneAt(FirstNamed(last.b)).rec
  /\ \E r \in RefsNamed(last.a) : entityAt(entityList, r).scenes = {FirstNamed(last.b)}

\* the payload class of each bucket
KindOf(bucket) ==
  CASE bucket = ARROWS3D -> "Arrows3D"
    [] bucket = BOXES3D -> "Boxes3D"
    [] bucket = CAPSULES3D -> "Capsules3D"
    [] bucket = LINESTRIPS3D -> "LineStrips3D"
    [] bucket = MESH3D -> "Mesh3D"
    [] bucket = MESH_FROM_PATH -> "MeshFromPath"
    [] bucket = POINTS3D -> "Points3D"

\* C17: every entity of bucket k holds a payload of kind k
C17_BucketMatchesPayload ==
  \A r \in EntityRefs(entityList) : entityAt(entityList, r).archetype.kind = KindOf(r[1])

\* C18: every backend call an operation issues carries a recording handle
\* that is not null: no call is made against a scene that has no recording
C18_CallsCarryRecording ==
  \A i \in 1..Len(calls) : calls[i].recording # None

\* the backend call c is a call for entity e: the generic log of its stored
\* name, or the file-load of its file path
CallFor(c, e) ==
  \/ c.fn = "log" /\ c.path = e.name
  \/ c.fn = "log_file_from_path" /\ e.archetype.kind = "MeshFromPath"
       /\ c.path = e.archetype.label

\* the scenes entity r is a member of after the step and was not before
Gained(r) ==
  entityAt(entityList', r).scenes
    \ (IF r \in EntityRefs(entityList) THEN entityAt(entityList, r).scenes ELSE {})

\* what C19 asks of a single step: a scene enters a membership set exactly in
\* the steps that issue a call for that entity to that scene
C19_LoggedStep ==
  /\ \A r \in EntityRefs(entityList') :
       \A k \in Gained(r) :
         \E i \in 1..Len(calls') :
           /\ CallFor(calls'[i], entityAt(entityList', r))
           /\ calls'[i].recording = sceneAt(k).rec
  /\ (last'.op = "addToGroup" /\ calls' # <<>>) =>
       \E r \in RefsNamed(last'.a) :
         /\ CallFor(calls'[1], entityAt(entityList, r))
         /\ FirstNamed(last'.b) \in entityAt(entityList', r).scenes
  /\ (last'.op \in AddOps \cup {"parseMeshFromPath"} /\ calls' # <<>>) =>
       \E r \in NewRefs :
         /\ CallFor(calls'[1], entityAt(entityList', r))
         /\ FirstNamed(PrefixOf(last'.a)) \in entityAt(entityList', r).scenes

\* C19: a scene is in an entity's membership set if and only if a backend
\* call for that entity to that scene has been issued, by scene-qualified
\* creation or by addToGroup: the registry starts empty, so this is every
\* step putting a scene into a membership set exactly when it issues such a
\* call
C19_MemberIffLogged == [][C19_LoggedStep]_vars

\* addArrow(n, ...) has registered an arrow that has not been resized since:
\* the ARROWS3D bucket holds an entity whose payload is the arrow addArrow
\* built for identifier n (resizeArrow only sets radii of NewRadii)
ArrowAddedAs(n) ==
  \E i \in 1..Len(entityList[ARROWS3D]) :
    entityList[ARROWS3D][i].archetype \in
      {Arrows3D(radius, RGBAcolor, n) : radius \in Radii, RGBAcolor \in Colors}

\* what C20 asks of a single step
C20_ResizeAfterAddStep ==
  (last'.op = "resizeArrow" /\ ArrowAddedAs(last'.a)) => ret' = "True"

\* C20: once addArrow(n, ...) has registered an arrow, resizeArrow(n, ...)
\* succeeds in every later state, whatever windows, scenes and entities were
\* created, bound or grouped in between
C20_ResizeFindsAddedArrow == [][C20_ResizeAfterAddStep]_vars
====
